---- MODULE Spec2Model ----
(***************************************************************************)
(* Duplicate detection, plan building and deletion of WeChat-cleanner.     *)
(* Two revisions of the library live in the repository: the `core` crate   *)
(* (src/core/src) and the older `lib` crate (src/lib/src).  A behaviour    *)
(* runs one of them, named by the variable crate.                          *)
(***************************************************************************)
EXTENDS Integers, Sequences, FiniteSets, TLC

\* ---------------------------------------------------------------- bounds
MaxFiles == 4      \* files present under the cache root
MaxTime == 2       \* modification times are 1..MaxTime
MaxUnreadable == 1 \* files whose read fails during one scan
MaxFailures == 1   \* files the system refuses to remove during one execution
MaxNameLen == 6    \* characters of a file name handed to patterned_name
MaxItems == 20     \* files of one batch handed to calculate_hashes_with_callback
MaxSearchPaths == 3 \* search paths get_platform_paths gives (Linux: three)

\* ------------------------------------------------------------- universe
\* File names are sequences of characters.
NameA  == <<"a", ".", "j">>
NameA1 == <<"a", "(", "1", ")", ".", "j">>
NameB  == <<"b", ".", "j">>
NameC  == <<"c", ".", "j">>

\* A hidden file, and two names whose base identity reads like a digest.
NameH   == <<".", "h">>
Name0A  == <<"0", "a", ".", "j">>
Name0A1 == <<"0", "a", "(", "1", ")", ".", "j">>

\* Directories below the root; DirH is hidden.
Dir1 == <<"d", "1">>
Dir2 == <<"d", "2">>
DirH == <<".", "d">>

\* A path is <<parent directory, file name>>.
Paths ==
  { <<Dir1, NameA>>, <<Dir1, NameA1>>, <<Dir1, NameB>>, <<Dir1, NameC>>,
    <<Dir2, NameA1>> }

\* The paths a scan is tried on: hidden names, a hidden directory, names that
\* read like digests.
ScanPaths ==
  { <<Dir1, NameA>>, <<Dir1, NameB>>, <<Dir1, NameC>>, <<Dir1, Name0A>>,
    <<Dir1, Name0A1>>, <<Dir1, NameH>>, <<DirH, NameB>> }

\* The paths in a fixed order, directory by directory, to list a set of paths
\* as a sequence.
PathSeq ==
  << <<Dir1, NameA>>, <<Dir1, NameA1>>, <<Dir1, NameB>>, <<Dir1, NameC>>,
     <<Dir1, Name0A>>, <<Dir1, Name0A1>>, <<Dir1, NameH>>, <<Dir2, NameA1>>,
     <<DirH, NameB>> >>

\* File contents; a file's size is the length of its content.
Contents == {"x", "z"}

ContentSize(c) == IF c = "z" THEN 2 ELSE 1

\* Values of settings.cleaning.min_file_size.
MinSizes == {0, 2}

Digits == {"0", "1", "2"}

AlNum == Digits \cup {"a", "b", "c", "d", "h", "j"}

\* Characters in byte order, for the ordering of paths.
CharOrder == <<"(", ")", ".", "0", "1", "2", "a", "b", "c", "d", "h", "j">>

NoScan == [none |-> TRUE]

NoPreview == [none |-> TRUE]

NoResult == [status |-> "none"]

\* The characters file names are made of when patterned_name is tried alone.
NameChars == {"a", "1", "(", ")", "."}

\* The file names patterned_name is tried on.
Names == UNION {[1..n -> NameChars] : n \in 1..MaxNameLen}

\* No base identity computed yet.
NoIdentity == <<"none">>

\* settings.wechat.cache_path is None.
NoPath == [kind |-> "none"]

\* default_cache_patterns, and a pattern Regex::new rejects.
DefaultPattern == "\\(\\d+\\)\\.[a-zA-Z0-9]+$"
InvalidPattern == "("

\* The last scan did not walk the root.
NotCollected == <<[none |-> TRUE]>>

\* No batch is being hashed.
NotHashing == [pc |-> "none"]

\* ------------------------------------------------------------- helpers
RECURSIVE Perms(_)
Perms(S) ==
  IF S = {} THEN {<<>>}
  ELSE UNION {{<<x>> \o p : p \in Perms(S \ {x})} : x \in S}

Range(s) == {s[i] : i \in 1..Len(s)}

RECURSIVE SumSizes(_)
SumSizes(files) ==
  IF files = <<>> THEN 0 ELSE Head(files).size + SumSizes(Tail(files))

RECURSIVE Flatten(_)
Flatten(ss) == IF ss = <<>> THEN <<>> ELSE Head(ss) \o Flatten(Tail(ss))

\* FileGrouper::group_by: a map from key to the items of that key, in the
\* order of the input.
GroupBy(items, key) ==
  [k \in {key[items[i]] : i \in 1..Len(items)} |->
     SelectSeq(items, LAMBDA it : key[it] = k)]

\* ------------------------------------------------------- pattern matcher
\* The default pattern \(\d+\)\.[a-zA-Z0-9]+$ matches name from position i.
MatchesAt(name, i) ==
  /\ name[i] = "("
  /\ \E k \in (i + 2)..(Len(name) - 2) :
       /\ \A j \in (i + 1)..(k - 1) : name[j] \in Digits
       /\ name[k] = ")"
       /\ name[k + 1] = "."
       /\ \A j \in (k + 2)..Len(name) : name[j] \in AlNum

\* Start of the leftmost match, 0 when the pattern does not match.
FirstMatch(name) ==
  LET ms == {i \in 1..Len(name) : MatchesAt(name, i)}
  IN IF ms = {} THEN 0 ELSE CHOOSE i \in ms : \A j \in ms : i <= j

\* Mutation of RFindDot: the position of the first ".".
FindDot(name) ==
  LET ds == {i \in 1..Len(name) : name[i] = "."}
  IN IF ds = {} THEN 0 ELSE CHOOSE i \in ds : \A j \in ds : i <= j

\* Position of the last ".", 0 when there is none.
RFindDot(name) ==
  LET ds == {i \in 1..Len(name) : name[i] = "."}
  IN IF ds = {} THEN 0 ELSE CHOOSE i \in ds : \A j \in ds : i >= j

patterned_name(name) ==
  LET m == FirstMatch(name)
      d == RFindDot(name)
  IN IF m > 1 THEN SubSeq(name, 1, m - 1)
     ELSE IF d > 0 THEN SubSeq(name, 1, d - 1)
     ELSE name

\* --------------------------------------------------------------- state
VARIABLES
  crate,          \* the library the program is built on: "core" or "lib"
  fs,             \* the files under the root: path -> [content, modified, kind, mode, owned]
  min_file_size,  \* settings.cleaning.min_file_size
  scan,           \* the ScanResult's duplicate_files, or NoScan
  preview,        \* the CleaningPreview of the last preview, or NoPreview
  result,         \* what the last execution since the scan returned
  removed,        \* the FileInfos the last execution removed from fs
  attempted,      \* the paths the last execution called remove_file on
  missing,        \* those of them that did not exist at the call
  op,             \* the last execution: "clean" or "confirm"; "new" before
  file_name,      \* the file name patterned_name is called on
  identity,       \* the base identity it returned, or NoIdentity
  tracker,        \* the ProgressTracker: its Progress and its report_interval
  events,         \* what the callback has been handed during the last operation
  hashing,        \* calculate_hashes_with_callback: the batch and how far it is
  cache_path,     \* settings.wechat.cache_path: NoPath or a name and what is there
  cache_patterns, \* settings.wechat.cache_patterns
  collected,      \* the records the last scan collected, NotCollected if it did not walk
  failed_reads,   \* the files the last scan could not read when it hashed them
  saved,          \* the scan result file at scan_result_save_path, NoScan if none
  merging,        \* Merge::merge: the CleaningSettings it is called on and with
  resolving       \* find_wechat_dirs: what is at the search paths, what it returned

\* The state of the calls of patterned_name on its own.
names_vars == <<file_name, identity>>

\* The state of the scan and clean commands.
cleaner_vars == <<crate, fs, min_file_size, scan, preview, result, removed, attempted,
                  missing, op>>

\* What the commands of the program leave alone.
idle_vars == <<names_vars, hashing, saved, merging, resolving>>

\* The settings of the scanner, and what the last scan met.
scanner_vars == <<cache_path, cache_patterns, collected, failed_reads>>

vars == <<crate, fs, min_file_size, scan, preview, result, removed, attempted, missing,
          op, file_name, identity, tracker, events, hashing, cache_path, cache_patterns,
          collected, failed_reads, saved, merging, resolving>>

\* ------------------------------------------------------ progress reports
\* Progress::new.
Progress_new == [current |-> 0, total |-> 0, completed |-> FALSE]

\* ProgressTracker::new: the interval is set from the total the Progress has
\* at this moment.
ProgressTracker_new(progress) ==
  LET tenth == progress.total \div 10
      at_least_one == IF tenth > 1 THEN tenth ELSE 1
  IN [progress |-> progress,
      report_interval |-> IF at_least_one < 1000 THEN at_least_one ELSE 1000]

\* callback.on_progress(&self.progress), made by the call named; s holds the
\* tracker and the events handed over so far.
on_progress(s, call) ==
  [s EXCEPT !.events = Append(@, [call |-> call,
                                  current |-> s.tracker.progress.current,
                                  total |-> s.tracker.progress.total,
                                  completed |-> s.tracker.progress.completed])]

\* ProgressReporter::report: a completed Progress is reset after the callback.
report(s, call) ==
  LET t == on_progress(s, call)
  IN IF s.tracker.progress.completed
     THEN [t EXCEPT !.tracker.progress = Progress_new]
     ELSE t

\* ProgressReporter::report_msg; the message itself is not kept.
report_msg(s) == on_progress(s, "report_msg")

\* ProgressReporter::report_progress.
report_progress(s, current, total) ==
  report([s EXCEPT !.tracker.progress.current = current,
                   !.tracker.progress.total = total], "report_progress")

\* ProgressReporter::report_complete.
report_complete(s) ==
  report([s EXCEPT !.tracker.progress.completed = TRUE], "report_complete")

\* What the calls of the reporter leave behind.
Reported(s) == tracker' = s.tracker /\ events' = s.events

\* ProgressTracker::update, after the action has run.
update(s) ==
  LET curr == s.tracker.progress.current + 1
      counted == [s EXCEPT !.tracker.progress.current = curr]
      reported == IF curr % s.tracker.report_interval = 0
                  THEN report(counted, "update") ELSE counted
  IN IF curr = reported.tracker.progress.total THEN report_complete(reported)
     ELSE reported

\* FileInfo::new: the record of an existing file.
FileInfo(f, p) ==
  [path |-> p, size |-> ContentSize(f[p].content), modified |-> f[p].modified]

Parent(p) == p[1]

Name(p) == p[2]

\* The MD5 digest of a content, in hex: contents that differ have digests
\* that differ.
Digest(c) ==
  CASE c = "x" -> <<"0", "a">>
    [] c = "z" -> <<"2", "c">>

\* The file systems a scan can meet.
FileSystems ==
  UNION { [S -> [content : Contents, modified : 1..MaxTime, kind : {"file"},
                  mode : {"644"}, owned : {TRUE}]] :
          S \in {T \in SUBSET Paths : Cardinality(T) <= MaxFiles} }

\* The trees a scan is tried on: all files of one age, Dir1/c.j a regular file
\* or a symbolic link.
ScanFileSystems ==
  { f \in UNION { [S -> [content : Contents, modified : {1}, kind : {"file", "link"},
                        mode : {"644"}, owned : {TRUE}]] :
                  S \in {T \in SUBSET ScanPaths : Cardinality(T) <= MaxFiles} } :
      \A p \in DOMAIN f : f[p].kind = "link" => p = <<Dir1, NameC>> }

\* The files delete_file is tried on: read-only or not, of this user or of
\* another one.
DeleteFileSystems ==
  UNION { [S -> [content : Contents, modified : {1}, kind : {"file"},
                 mode : {"444", "644"}, owned : BOOLEAN]] :
          S \in SUBSET {<<Dir1, NameA>>, <<Dir1, NameB>>} }

\* is_hidden: the entry's own name starts with ".".
is_hidden(name) == name # << >> /\ name[1] = "."

\* WalkDir::new(path) filtered by file_type().is_file(): the regular files
\* under the root, in an order the file system decides.
Walk(f) == SelectSeq(PathSeq, LAMBDA p : p \in DOMAIN f /\ f[p].kind = "file")

\* The same walk under filter_entry(|e| !is_hidden(e)): a hidden entry is not
\* yielded and, if a directory, not descended into; the root is an entry too.
WalkVisible(root, f) ==
  IF is_hidden(root) THEN << >>
  ELSE SelectSeq(Walk(f), LAMBDA p : ~is_hidden(Parent(p)) /\ ~is_hidden(Name(p)))

\* FileInfo::collect_from of a directory: a record for every file the walk
\* yields, in walk order.
collect_from(path, f) ==
  [i \in 1..Len(WalkVisible(path.name, f)) |-> FileInfo(f, WalkVisible(path.name, f)[i])]

\* Regex::new: whether the pattern compiles.
Regex_new(pattern) == IF pattern = DefaultPattern THEN "ok" ELSE "err"

\* Named::patterned_name of the names in use.
PatternOf == [n \in {Name(p) : p \in Paths \cup ScanPaths} |-> patterned_name(n)]

\* Mutation of opened: the files are opened with File::create, which leaves
\* none of them as it was.
created(f, files) == [p \in DOMAIN f \ {x.path : x \in Range(files)} |-> f[p]]

\* The file system after fs::File::open and the reads of Hashed::hash on each
\* of the files: opening for reading changes no file and no mode.
opened(f, files) == [p \in DOMAIN f |-> f[p]]

\* Hashed::hash of a file record: None (here <<>>) when the file cannot be
\* opened or read.
hash(f, unreadable, file) ==
  IF file.path \in unreadable \/ file.path \notin DOMAIN f THEN <<>>
  ELSE Digest(f[file.path].content)

\* Mutation of group_by_hash: one file without a digest empties the map.
group_by_hash_or_nothing(f, unreadable, items) ==
  IF \E i \in 1..Len(items) : hash(f, unreadable, items[i]) = << >> THEN << >>
  ELSE GroupBy(items, [it \in Range(items) |-> hash(f, unreadable, it)])

\* FileGrouper::group_by_hash: files without a digest are dropped.
group_by_hash(f, unreadable, items) ==
  GroupBy(SelectSeq(items, LAMBDA it : hash(f, unreadable, it) # <<>>),
          [it \in Range(items) |-> hash(f, unreadable, it)])

\* Mutation of group_by_pattern: the first file handed over is left out.
group_by_pattern_of_rest(items) ==
  GroupBy(Tail(items), [it \in Range(items) |-> PatternOf[Name(it.path)]])

\* FileGrouper::group_by_pattern with the default pattern.
group_by_pattern(items) ==
  GroupBy(items, [it \in Range(items) |-> PatternOf[Name(it.path)]])

\* Mutation of group_by_size: all files in one group, whatever their size.
group_by_any_size(items) == GroupBy(items, [it \in Range(items) |-> 0])

group_by_size(items) == GroupBy(items, [it \in Range(items) |-> it.size])

\* Mutation of Multi: keeps the groups of one file too.
Multi_nonempty(groups) == {k \in DOMAIN groups : Len(groups[k]) > 0}

\* The entries of a map with more than one member: items.len() > 1.
Multi(groups) == {k \in DOMAIN groups : Len(groups[k]) > 1}

\* A set as a sequence, in some order.
SeqOf(S) == CHOOSE s \in Perms(S) : TRUE

\* The values of a map, one after the other.
Values(groups) ==
  LET ks == SeqOf(DOMAIN groups)
  IN Flatten([i \in 1..Len(ks) |-> groups[ks[i]]])

\* Mutation of same_size: the files that share a base identity are not set
\* aside.
same_size_of_all(all_files) ==
  LET by_size == group_by_size(all_files)
  IN Values([k \in Multi(by_size) |-> by_size[k]])

\* The files duplicates_by_pattern hands to group_by_hash: those alone with
\* their base identity that share their size with another of them.
same_size(all_files) ==
  LET by_pattern == group_by_pattern(all_files)
      size_candidates == [k \in DOMAIN by_pattern \ Multi(by_pattern) |-> by_pattern[k]]
      candidates == Values(size_candidates)
      by_size == group_by_size(candidates)
  IN Values([k \in Multi(by_size) |-> by_size[k]])

\* Mutation of duplicates_by_pattern: a group of the first phase is kept when
\* a group of the second has the same key.
duplicates_by_pattern_keep(f, unreadable, all_files) ==
  LET by_pattern == group_by_pattern(all_files)
      pattern_duplicates == [k \in Multi(by_pattern) |-> by_pattern[k]]
      by_hash == group_by_hash(f, unreadable, same_size(all_files))
      hash_duplicate == [k \in Multi(by_hash) |-> by_hash[k]]
  IN [k \in DOMAIN pattern_duplicates \cup DOMAIN hash_duplicate |->
        IF k \in DOMAIN pattern_duplicates THEN pattern_duplicates[k]
        ELSE hash_duplicate[k]]

\* FileFilter::duplicates_by_pattern: extend replaces a group of the first
\* phase by the group of the second that has the same key.
duplicates_by_pattern(f, unreadable, all_files) ==
  LET by_pattern == group_by_pattern(all_files)
      pattern_duplicates == [k \in Multi(by_pattern) |-> by_pattern[k]]
      by_hash == group_by_hash(f, unreadable, same_size(all_files))
      hash_duplicate == [k \in Multi(by_hash) |-> by_hash[k]]
  IN [k \in DOMAIN pattern_duplicates \cup DOMAIN hash_duplicate |->
        IF k \in DOMAIN hash_duplicate THEN hash_duplicate[k]
        ELSE pattern_duplicates[k]]

\* The members of a group come in the order of the directory walk and of the
\* iteration of the hash maps, neither of which is specified.  The cleaner
\* splits a group by parent directory, keeping the order inside a directory,
\* and sorts stably by modified: only the order of members with the same
\* parent and the same modified reaches it.  Of the orders that agree on
\* those, the one sorted by parent and by falling modified stands for all.
InOrder(s) ==
  \A i, j \in 1..Len(s) :
    i < j =>
      \/ Parent(s[i].path) = Parent(s[j].path) /\ s[i].modified >= s[j].modified
      \/ Parent(s[i].path) # Parent(s[j].path)
         /\ \E a, b \in 1..Len(PathSeq) :
              a < b /\ Parent(PathSeq[a]) = Parent(s[i].path)
                    /\ Parent(PathSeq[b]) = Parent(s[j].path)

MemberOrders(members) == {s \in Perms(members) : InOrder(s)}

Reorderings(groups) ==
  {g \in [DOMAIN groups -> UNION {MemberOrders(Range(groups[k])) : k \in DOMAIN groups}] :
     \A k \in DOMAIN groups : Range(g[k]) = Range(groups[k])}

\* The files whose open or read fails during one scan, of those it hashes.
UnreadableSets(hashed) ==
  {U \in SUBSET {x.path : x \in Range(hashed)} : Cardinality(U) <= MaxUnreadable}

\* ------------------------------------------------------ plan building
\* Mutation of sort_by_modified: the newest file comes first.
RECURSIVE sort_by_modified_newest_first(_)
sort_by_modified_newest_first(files) ==
  IF Len(files) <= 1 THEN files
  ELSE LET m == CHOOSE t \in {files[i].modified : i \in 1..Len(files)} :
                  \A i \in 1..Len(files) : t >= files[i].modified
       IN SelectSeq(files, LAMBDA x : x.modified = m)
          \o sort_by_modified_newest_first(SelectSeq(files, LAMBDA x : x.modified # m))

\* sort_by_key(|f| f.modified): a stable sort, oldest first.
RECURSIVE sort_by_modified(_)
sort_by_modified(files) ==
  IF Len(files) <= 1 THEN files
  ELSE LET m == CHOOSE t \in {files[i].modified : i \in 1..Len(files)} :
                  \A i \in 1..Len(files) : t <= files[i].modified
       IN SelectSeq(files, LAMBDA x : x.modified = m)
          \o sort_by_modified(SelectSeq(files, LAMBDA x : x.modified # m))

\* Mutation of group_files_by_parent: every file is filed under the parent of
\* the first.
group_files_by_first_parent(files) ==
  GroupBy(files, [x \in Range(files) |-> Parent(files[1].path)])

\* FileCleaner::group_files_by_parent.
group_files_by_parent(files) ==
  GroupBy(files, [x \in Range(files) |-> Parent(x.path)])

\* The body of generate_preview's loop for one duplicate group: the
\* PreviewGroups it inserts, by parent directory.
preview_groups_of(files, minsz) ==
  LET groups == group_files_by_parent(files)
      sorted == [d \in Multi(groups) |-> sort_by_modified(groups[d])]
      to_delete == [d \in DOMAIN sorted |->
                      SelectSeq(Tail(sorted[d]), LAMBDA x : x.size >= minsz)]
  IN [d \in {e \in DOMAIN sorted : to_delete[e] # <<>>} |->
        [file_to_keep |-> Head(sorted[d]), files_to_delete |-> to_delete[d]]]

\* All files_to_delete of a map of PreviewGroups.
AllToDelete(pgs) ==
  LET ds == SeqOf(DOMAIN pgs)
  IN Flatten([i \in 1..Len(ds) |-> pgs[ds[i]].files_to_delete])

\* FileCleaner::generate_preview; keys is the order in which the hash map
\* duplicate_files yields its groups.  insert replaces an entry of the same
\* parent directory.
RECURSIVE generate_preview(_, _, _, _)
generate_preview(dup, keys, minsz, acc) ==
  IF keys = <<>> THEN acc
  ELSE LET pgs == preview_groups_of(dup[Head(keys)], minsz)
           new == AllToDelete(pgs)
       IN generate_preview(dup, Tail(keys), minsz,
            [estimated_files_count |-> acc.estimated_files_count + Len(new),
             estimated_freed_space |-> acc.estimated_freed_space + SumSizes(new),
             file_groups |->
               [d \in DOMAIN acc.file_groups \cup DOMAIN pgs |->
                  IF d \in DOMAIN pgs THEN pgs[d] ELSE acc.file_groups[d]]])

EmptyPreview ==
  [estimated_files_count |-> 0, estimated_freed_space |-> 0, file_groups |-> << >>]

\* ------------------------------------------------------------ deletion
\* The state an execution works on: the file system, and the cleaner's
\* progress_tracker with what it has handed to the callback.
ExecState(f, t) ==
  [fs |-> f, removed |-> {}, attempted |-> {}, missing |-> {},
   tracker |-> t, events |-> << >>]

\* set_file_permissions(path, 0o644) on unix: Err when fs::metadata fails, as
\* the file is not there, or when fs::set_permissions fails, as the file is
\* another user's; else the mode is 0o644.
set_file_permissions(f, path) ==
  IF path \notin DOMAIN f \/ ~f[path].owned THEN [fs |-> f, ret |-> "err"]
  ELSE [fs |-> [f EXCEPT ![path].mode = "644"], ret |-> "ok"]

\* std::fs::remove_file: locked are the paths the system refuses to remove.
remove_file(f, path, locked) ==
  IF path \in DOMAIN f /\ path \notin locked
  THEN [fs |-> [p \in DOMAIN f \ {path} |-> f[p]], ret |-> "ok"]
  ELSE [fs |-> f, ret |-> "err"]

\* Mutation of delete_file: the Err of set_file_permissions is returned.
delete_file_checked(st, file, minsz, locked) ==
  LET fixed == set_file_permissions(st.fs, file.path)
      r == remove_file(fixed.fs, file.path, locked)
  IN IF file.size < minsz THEN [st |-> st, ret |-> "false"]
     ELSE IF fixed.ret = "ok" /\ r.ret = "ok"
     THEN [st |-> [st EXCEPT !.fs = r.fs,
                             !.removed = @ \cup {file},
                             !.attempted = @ \cup {file.path}],
           ret |-> "true"]
     ELSE [st |-> [st EXCEPT !.attempted = @ \cup {file.path}], ret |-> "err"]

\* FileCleaner::delete_file: Ok(false) below the floor; else the permissions
\* are set, an Err of that is logged, and remove_file decides: Ok(true) when
\* it succeeds, Err when it fails.
delete_file(st, file, minsz, locked) ==
  IF file.size < minsz THEN [st |-> st, ret |-> "false"]
  ELSE LET fixed == set_file_permissions(st.fs, file.path)
           r == remove_file(fixed.fs, file.path, locked)
       IN IF r.ret = "ok"
          THEN [st |-> [st EXCEPT !.fs = r.fs,
                                  !.removed = @ \cup {file},
                                  !.attempted = @ \cup {file.path}],
                ret |-> "true"]
          ELSE [st |-> [st EXCEPT !.fs = r.fs,
                                  !.attempted = @ \cup {file.path},
                                  !.missing = IF file.path \in DOMAIN st.fs THEN @
                                              ELSE @ \cup {file.path}],
                ret |-> "err"]

\* FileCleaner::delete_files: the first Err ends the loop.
RECURSIVE delete_files(_, _, _, _, _)
delete_files(st, files, minsz, locked, deleted) ==
  IF files = <<>> THEN [st |-> st, deleted |-> deleted, err |-> FALSE]
  ELSE LET r == delete_file(st, Head(files), minsz, locked)
       IN IF r.ret = "err" THEN [st |-> r.st, deleted |-> deleted, err |-> TRUE]
          ELSE delete_files(r.st, Tail(files), minsz, locked,
                 IF r.ret = "true" THEN Append(deleted, Head(files)) ELSE deleted)

\* HashMap::insert.
Insert(map, k, v) == [x \in DOMAIN map \cup {k} |-> IF x = k THEN v ELSE map[x]]

\* FileCleaner::execute_cleaning_from_preview; parents is the order in which
\* the hash map file_groups yields its entries, what is left of it.  Every
\* group is announced with report_msg and, once its files are deleted,
\* counted with report_progress.
RECURSIVE execute_cleaning_from_preview(_, _, _, _, _, _)
execute_cleaning_from_preview(st, file_groups, parents, minsz, locked, deleted_files) ==
  IF parents = <<>> THEN [st |-> st, deleted_files |-> deleted_files, err |-> FALSE]
  ELSE LET total_groups == Cardinality(DOMAIN file_groups)
           group_num == total_groups - Len(parents) + 1
           r == delete_files(report_msg(st), file_groups[Head(parents)].files_to_delete,
                             minsz, locked, <<>>)
       IN IF r.err THEN [st |-> r.st, deleted_files |-> deleted_files, err |-> TRUE]
          ELSE execute_cleaning_from_preview(
                 report_progress(r.st, group_num, total_groups), file_groups,
                 Tail(parents), minsz, locked,
                 IF r.deleted # <<>> THEN Insert(deleted_files, Head(parents), r.deleted)
                 ELSE deleted_files)

\* The inner loop of clean_auto over the parent directories of one group.
RECURSIVE clean_auto_group(_, _, _, _, _, _)
clean_auto_group(st, groups, parents, minsz, locked, deleted_files) ==
  IF parents = <<>> THEN [st |-> st, deleted_files |-> deleted_files, err |-> FALSE]
  ELSE IF Len(groups[Head(parents)]) <= 1
  THEN clean_auto_group(st, groups, Tail(parents), minsz, locked, deleted_files)
  ELSE LET files_to_delete == Tail(sort_by_modified(groups[Head(parents)]))
           r == delete_files(st, files_to_delete, minsz, locked, <<>>)
       IN IF r.err THEN [st |-> r.st, deleted_files |-> deleted_files, err |-> TRUE]
          ELSE clean_auto_group(r.st, groups, Tail(parents), minsz, locked,
                 IF r.deleted # <<>> THEN Insert(deleted_files, Head(parents), r.deleted)
                 ELSE deleted_files)

\* FileCleaner::clean_auto; keys and parent_orders are the orders in which
\* duplicate_files and each group's map by parent yield their entries.  Every
\* duplicate group is counted with report_progress.
RECURSIVE clean_auto(_, _, _, _, _, _, _)
clean_auto(st, dup, keys, parent_orders, minsz, locked, deleted_files) ==
  IF keys = <<>> THEN [st |-> st, deleted_files |-> deleted_files, err |-> FALSE]
  ELSE LET total_groups == Cardinality(DOMAIN dup)
           r == clean_auto_group(st, group_files_by_parent(dup[Head(keys)]),
                                 parent_orders[Head(keys)], minsz, locked, deleted_files)
       IN IF r.err THEN r
          ELSE clean_auto(
                 report_progress(r.st, total_groups - Len(keys) + 1, total_groups),
                 dup, Tail(keys), parent_orders, minsz, locked, r.deleted_files)

\* CleaningResult::new.
CleaningResult(deleted_files) ==
  [status |-> "ok",
   files_deleted |-> Len(Values(deleted_files)),
   freed_space |-> SumSizes(Values(deleted_files)),
   deleted_files |-> deleted_files]

FileProcessingError == [status |-> "err", error |-> "FileProcessing"]

\* Mutation of InvalidOperationError: an empty result in place of the error.
EmptyCleaningResult ==
  [status |-> "ok", files_deleted |-> 0, freed_space |-> 0, deleted_files |-> << >>]

InvalidOperationError == [status |-> "err", error |-> "InvalidOperation"]

\* The paths the system may refuse to remove during one execution.
LockedSets(targets) == {L \in SUBSET targets : Cardinality(L) <= MaxFailures}

\* For each group, the orders of its parent directories.
ParentOrders(dup) ==
  {po \in [DOMAIN dup -> UNION {Perms(DOMAIN group_files_by_parent(dup[k])) : k \in DOMAIN dup}] :
     \A k \in DOMAIN dup : Range(po[k]) = DOMAIN group_files_by_parent(dup[k])}

\* The paths of the files in a map of groups.
PathsIn(groups) == {x.path : x \in Range(Values(groups))}

\* What an execution leaves behind: on Ok the caller, clean or
\* confirm_and_execute, goes on to report_complete, on Err it returns at once.
Finish(r, name) ==
  /\ fs' = r.st.fs
  /\ removed' = r.st.removed
  /\ attempted' = r.st.attempted
  /\ missing' = r.st.missing
  /\ result' = IF r.err THEN FileProcessingError ELSE CleaningResult(r.deleted_files)
  /\ op' = name
  /\ Reported(IF r.err THEN r.st ELSE report_complete(r.st))

\* ---------------------------------------------------------- lib crate
\* FileInfo::new of the lib crate: the record has a field for the digest.
FileInfoLib(f, p) ==
  [path |-> p, size |-> ContentSize(f[p].content), modified |-> f[p].modified,
   hash |-> <<>>]

\* FileScanner::collect_file_metadata: no entry is left out for its name.
collect_file_metadata(f) == [i \in 1..Len(Walk(f)) |-> FileInfoLib(f, Walk(f)[i])]

\* calculate_hashes: a file whose hash() fails keeps hash = None.
calculate_hashes(f, unreadable, files) ==
  [i \in 1..Len(files) |-> [files[i] EXCEPT !.hash = hash(f, unreadable, files[i])]]

\* group_by_hash of the lib crate: by the hash field, files without one left out.
group_by_hash_field(files) ==
  GroupBy(SelectSeq(files, LAMBDA it : it.hash # <<>>),
          [it \in Range(files) |-> it.hash])

\* files_to_hash of FileScanner::scan: the files that share their size with
\* another.
files_to_hash(all_files) ==
  LET size_groups == group_by_size(all_files)
  IN Values([k \in Multi(size_groups) |-> size_groups[k]])

\* FileScanner::scan of the lib crate, from the collected metadata on.
scan_lib(f, unreadable, all_files) ==
  LET file_groups == group_by_hash_field(
                       calculate_hashes(f, unreadable, files_to_hash(all_files)))
  IN [k \in Multi(file_groups) |-> file_groups[k]]

\* FileCleaner::preview_group_auto; parents is the order in which the map by
\* parent directory yields its entries.
RECURSIVE preview_group_auto(_, _, _)
preview_group_auto(groups, parents, acc) ==
  IF parents = <<>> THEN acc
  ELSE IF Len(groups[Head(parents)]) <= 1
  THEN preview_group_auto(groups, Tail(parents), acc)
  ELSE LET sorted == sort_by_modified(groups[Head(parents)])
       IN preview_group_auto(groups, Tail(parents),
            Append(acc, [parent_path |-> Head(parents),
                         file_to_keep |-> Head(sorted),
                         files_to_delete |-> Tail(sorted)]))

\* The files of a sequence of PreviewGroups that are at or above the floor.
RECURSIVE CountedFiles(_, _)
CountedFiles(pgs, minsz) ==
  IF pgs = <<>> THEN <<>>
  ELSE SelectSeq(Head(pgs).files_to_delete, LAMBDA x : x.size >= minsz)
       \o CountedFiles(Tail(pgs), minsz)

\* FileCleaner::preview_cleaning.
RECURSIVE preview_cleaning(_, _, _, _, _)
preview_cleaning(dup, keys, parent_orders, minsz, acc) ==
  IF keys = <<>> THEN acc
  ELSE LET group_previews == preview_group_auto(group_files_by_parent(dup[Head(keys)]),
                                                parent_orders[Head(keys)], <<>>)
           counted == CountedFiles(group_previews, minsz)
       IN preview_cleaning(dup, Tail(keys), parent_orders, minsz,
            [files_to_delete |-> acc.files_to_delete \o group_previews,
             estimated_freed_space |-> acc.estimated_freed_space + SumSizes(counted),
             estimated_files_count |-> acc.estimated_files_count + Len(counted)])

EmptyPreviewLib ==
  [files_to_delete |-> <<>>, estimated_freed_space |-> 0, estimated_files_count |-> 0]

\* The state an execution of the lib crate works on: the file system and the
\* cleaner's counters.
ExecStateLib(f) ==
  [fs |-> f, removed |-> {}, attempted |-> {}, missing |-> {},
   files_deleted |-> 0, freed_space |-> 0,
   tracker |-> ProgressTracker_new(Progress_new), events |-> << >>]

\* FileCleaner::delete_file of the lib crate: counts what it removes.
delete_file_lib(st, file, minsz, locked) ==
  LET r == delete_file(st, file, minsz, locked)
  IN IF r.ret = "true"
     THEN [st |-> [r.st EXCEPT !.files_deleted = @ + 1, !.freed_space = @ + file.size],
           ret |-> "true"]
     ELSE r

\* The loop of clean_from_preview over the files of one group: Ok(false)
\* and Err are logged, the loop goes on.
RECURSIVE clean_preview_group(_, _, _, _)
clean_preview_group(st, files, minsz, locked) ==
  IF files = <<>> THEN st
  ELSE clean_preview_group(delete_file_lib(st, Head(files), minsz, locked).st,
                           Tail(files), minsz, locked)

\* The loop of FileCleaner::clean_from_preview over the groups that are left
\* of total_groups: report_msg, the deletions, report_progress.
RECURSIVE clean_preview_groups(_, _, _, _, _)
clean_preview_groups(st, pgs, total_groups, minsz, locked) ==
  IF pgs = <<>> THEN st
  ELSE clean_preview_groups(
         report_progress(
           clean_preview_group(report_msg(st), Head(pgs).files_to_delete, minsz, locked),
           total_groups - Len(pgs) + 1, total_groups),
         Tail(pgs), total_groups, minsz, locked)

\* FileCleaner::clean_from_preview: report_msg, the loop, report_complete.
clean_from_preview(st, pgs, minsz, locked) ==
  report_complete(clean_preview_groups(report_msg(st), pgs, Len(pgs), minsz, locked))

\* The loop of clean_group_auto over the files to delete in one directory:
\* the first Err is returned.
RECURSIVE clean_group_files(_, _, _, _)
clean_group_files(st, files, minsz, locked) ==
  IF files = <<>> THEN [st |-> st, err |-> FALSE]
  ELSE LET r == delete_file_lib(st, Head(files), minsz, locked)
       IN IF r.ret = "err" THEN [st |-> r.st, err |-> TRUE]
          ELSE clean_group_files(r.st, Tail(files), minsz, locked)

\* FileCleaner::clean_group_auto, after the grouping by parent directory.
RECURSIVE clean_group_auto(_, _, _, _, _)
clean_group_auto(st, groups, parents, minsz, locked) ==
  IF parents = <<>> THEN st
  ELSE IF Len(groups[Head(parents)]) <= 1
  THEN clean_group_auto(st, groups, Tail(parents), minsz, locked)
  ELSE LET r == clean_group_files(st, Tail(sort_by_modified(groups[Head(parents)])),
                                  minsz, locked)
       IN IF r.err THEN r.st
          ELSE clean_group_auto(r.st, groups, Tail(parents), minsz, locked)

\* The loop of FileCleaner::clean_all_duplicates over the groups that are
\* left: report_msg, clean_group, whose error is logged, report_progress.
RECURSIVE clean_duplicate_groups(_, _, _, _, _, _)
clean_duplicate_groups(st, dup, keys, parent_orders, minsz, locked) ==
  IF keys = <<>> THEN st
  ELSE clean_duplicate_groups(
         report_progress(
           clean_group_auto(report_msg(st), group_files_by_parent(dup[Head(keys)]),
                            parent_orders[Head(keys)], minsz, locked),
           Cardinality(DOMAIN dup) - Len(keys) + 1, Cardinality(DOMAIN dup)),
         dup, Tail(keys), parent_orders, minsz, locked)

\* FileCleaner::clean_all_duplicates: report_msg, the loop, report_complete.
clean_all_duplicates(st, dup, keys, parent_orders, minsz, locked) ==
  report_complete(
    clean_duplicate_groups(report_msg(st), dup, keys, parent_orders, minsz, locked))

\* What an execution of the lib crate leaves behind: Ok(()) and the cleaner's
\* counters files_deleted and freed_space.
FinishLib(st, name) ==
  /\ fs' = st.fs
  /\ removed' = st.removed
  /\ attempted' = st.attempted
  /\ missing' = st.missing
  /\ result' = [status |-> "ok", files_deleted |-> st.files_deleted,
                freed_space |-> st.freed_space]
  /\ op' = name
  /\ Reported(st)

\* ---------------------------------------------------------------- Init
Init ==
  /\ crate \in {"core", "lib"}
  /\ fs \in FileSystems
  /\ min_file_size \in MinSizes
  /\ scan = NoScan
  /\ preview = NoPreview
  /\ result = NoResult
  /\ removed = {}
  /\ attempted = {}
  /\ missing = {}
  /\ op = "new"
  /\ file_name = NameA
  /\ identity = NoIdentity
  /\ tracker = ProgressTracker_new(Progress_new)
  /\ events = << >>
  /\ hashing = NotHashing
  /\ cache_path = [kind |-> "dir", name |-> <<"r">>]
  /\ cache_patterns = DefaultPattern
  /\ collected = NotCollected
  /\ failed_reads = {}
  /\ saved = NoScan
  /\ merging = [pc |-> "none"]
  /\ resolving = [pc |-> "none"]

\* The scan command, a new run of the program: FileScanner::scan_with_progress
\* followed by ScanResult::save.  Nothing is returned, and nothing saved, when
\* there is no cache path or no directory there, when the walk yields no file,
\* or when the pattern does not compile, which is found out after the walk.
Scan ==
  /\ crate = "core"
  /\ IF cache_path = NoPath \/ cache_path.kind # "dir"
     THEN /\ collected' = NotCollected
          /\ failed_reads' = {}
          /\ fs' = fs
          /\ UNCHANGED <<scan, preview, result, removed, attempted, missing, op>>
     ELSE LET all_files == collect_from(cache_path, fs)
          IN /\ collected' = all_files
             /\ IF all_files = << >> \/ Regex_new(cache_patterns) = "err"
                THEN /\ failed_reads' = {}
                     /\ fs' = fs
                     /\ UNCHANGED <<scan, preview, result, removed, attempted, missing, op>>
                ELSE /\ fs' = opened(fs, same_size(all_files))
                     /\ \E unreadable \in UnreadableSets(same_size(all_files)) :
                          /\ failed_reads' = unreadable
                          /\ scan' \in Reorderings(
                                         duplicates_by_pattern(fs, unreadable, all_files))
                     /\ preview' = NoPreview
                     /\ result' = NoResult
                     /\ removed' = {}
                     /\ attempted' = {}
                     /\ missing' = {}
                     /\ op' = "new"
  /\ tracker' = ProgressTracker_new(Progress_new)
  /\ events' = << >>
  /\ UNCHANGED <<crate, min_file_size, cache_path, cache_patterns>>
  /\ UNCHANGED idle_vars

\* The start of a clean command, a new run of the program, on the saved scan
\* result: FileCleaner::clean with preview_only = true, on a new cleaner with
\* a progress callback.
Preview ==
  /\ crate = "core"
  /\ scan # NoScan
  /\ \E keys \in Perms(DOMAIN scan) :
       preview' = generate_preview(scan, keys, min_file_size, EmptyPreview)
  /\ Reported(report_complete(report_msg(
       [tracker |-> ProgressTracker_new(Progress_new), events |-> << >>])))
  /\ result' = NoResult
  /\ removed' = {}
  /\ attempted' = {}
  /\ missing' = {}
  /\ op' = "new"
  /\ UNCHANGED <<crate, fs, min_file_size, scan>>
  /\ UNCHANGED idle_vars
  /\ UNCHANGED scanner_vars

\* A clean command without preview, a new run of the program on the saved
\* scan result: FileCleaner::clean with preview_only = false.
Clean ==
  /\ crate = "core"
  /\ scan # NoScan
  /\ \E keys \in Perms(DOMAIN scan), po \in ParentOrders(scan),
        locked \in LockedSets(PathsIn(scan)) :
       Finish(clean_auto(report_msg(ExecState(fs, ProgressTracker_new(Progress_new))),
                         scan, keys, po, min_file_size, locked, << >>),
              "clean")
  /\ preview' = NoPreview
  /\ UNCHANGED <<crate, min_file_size, scan>>
  /\ UNCHANGED idle_vars
  /\ UNCHANGED scanner_vars

\* FileCleaner::confirm_and_execute, on the cleaner of the preview, with the
\* result the caller holds: that of the last preview, or one that carries no
\* preview.
ConfirmAndExecute ==
  /\ crate = "core"
  /\ IF preview = NoPreview
     THEN /\ result' = InvalidOperationError
          /\ removed' = {}
          /\ attempted' = {}
          /\ missing' = {}
          /\ op' = "confirm"
          /\ fs' = fs
          /\ tracker' = tracker
          /\ events' = << >>
     ELSE \E parents \in Perms(DOMAIN preview.file_groups),
             locked \in LockedSets({x.path : x \in Range(AllToDelete(preview.file_groups))}) :
            Finish(execute_cleaning_from_preview(report_msg(ExecState(fs, tracker)),
                     preview.file_groups, parents, min_file_size, locked, << >>),
                   "confirm")
  /\ UNCHANGED <<crate, min_file_size, scan, preview>>
  /\ UNCHANGED idle_vars
  /\ UNCHANGED scanner_vars

\* FileScanner::scan of the lib crate with a configured cache path.  It
\* returns an error, and no result, when nothing exists at the path or the
\* walk yields no file.
ScanLib ==
  /\ crate = "lib"
  /\ cache_path # NoPath
  /\ IF cache_path.kind = "missing"
     THEN /\ collected' = NotCollected
          /\ failed_reads' = {}
          /\ fs' = fs
          /\ UNCHANGED <<scan, preview, result, removed, attempted, missing, op>>
     ELSE LET all_files == collect_file_metadata(fs)
          IN /\ collected' = all_files
             /\ IF all_files = << >>
                THEN /\ failed_reads' = {}
                     /\ fs' = fs
                     /\ UNCHANGED <<scan, preview, result, removed, attempted, missing, op>>
                ELSE /\ fs' = opened(fs, files_to_hash(all_files))
                     /\ \E unreadable \in UnreadableSets(files_to_hash(all_files)) :
                          /\ failed_reads' = unreadable
                          /\ scan' \in Reorderings(scan_lib(fs, unreadable, all_files))
                     /\ preview' = NoPreview
                     /\ result' = NoResult
                     /\ removed' = {}
                     /\ attempted' = {}
                     /\ missing' = {}
                     /\ op' = "new"
  /\ tracker' = ProgressTracker_new(Progress_new)
  /\ events' = << >>
  /\ UNCHANGED <<crate, min_file_size, cache_path, cache_patterns>>
  /\ UNCHANGED idle_vars

\* FileCleaner::preview_cleaning of the lib crate, on the last scan result.
PreviewLib ==
  /\ crate = "lib"
  /\ scan # NoScan
  /\ \E keys \in Perms(DOMAIN scan), po \in ParentOrders(scan) :
       preview' = preview_cleaning(scan, keys, po, min_file_size, EmptyPreviewLib)
  /\ tracker' = ProgressTracker_new(Progress_new)
  /\ events' = << >>
  /\ result' = NoResult
  /\ removed' = {}
  /\ attempted' = {}
  /\ missing' = {}
  /\ op' = "new"
  /\ UNCHANGED <<crate, fs, min_file_size, scan>>
  /\ UNCHANGED idle_vars
  /\ UNCHANGED scanner_vars

\* FileCleaner::clean_from_preview of the lib crate with the last preview, on
\* a new cleaner.
CleanFromPreview ==
  /\ crate = "lib"
  /\ preview # NoPreview
  /\ \E locked \in LockedSets({x.path : x \in Range(Flatten(
                     [i \in 1..Len(preview.files_to_delete) |->
                        preview.files_to_delete[i].files_to_delete]))}) :
       FinishLib(clean_from_preview(ExecStateLib(fs), preview.files_to_delete,
                                    min_file_size, locked), "confirm")
  /\ UNCHANGED <<crate, min_file_size, scan, preview>>
  /\ UNCHANGED idle_vars
  /\ UNCHANGED scanner_vars

\* FileCleaner::clean_all_duplicates of the lib crate on the last scan
\* result, on a new cleaner.
CleanAllDuplicates ==
  /\ crate = "lib"
  /\ scan # NoScan
  /\ \E keys \in Perms(DOMAIN scan), po \in ParentOrders(scan),
        locked \in LockedSets(PathsIn(scan)) :
       FinishLib(clean_all_duplicates(ExecStateLib(fs), scan, keys, po,
                                      min_file_size, locked), "clean")
  /\ preview' = NoPreview
  /\ UNCHANGED <<crate, min_file_size, scan>>
  /\ UNCHANGED idle_vars
  /\ UNCHANGED scanner_vars

Next ==
  \/ Scan \/ Preview \/ Clean \/ ConfirmAndExecute
  \/ ScanLib \/ PreviewLib \/ CleanFromPreview \/ CleanAllDuplicates

Spec == Init /\ [][Next]_vars

\* ---------------------------------------------- the commands of the CLI
\* Mutation of cleanup_scan_result_file: the file is left where it is.
keep_scan_result_file(file) == file

\* CleanerHandler::cleanup_scan_result_file: std::fs::remove_file on the scan
\* result file.
cleanup_scan_result_file(file) == NoScan

\* The program built on the lib crate, before its first command.
InitCli ==
  /\ crate = "lib"
  /\ fs \in {f \in FileSystems : \A p \in DOMAIN f : f[p].modified = 1}
  /\ min_file_size \in MinSizes
  /\ scan = NoScan
  /\ preview = NoPreview
  /\ result = NoResult
  /\ removed = {}
  /\ attempted = {}
  /\ missing = {}
  /\ op = "new"
  /\ file_name = NameA
  /\ identity = NoIdentity
  /\ tracker = ProgressTracker_new(Progress_new)
  /\ events = << >>
  /\ hashing = NotHashing
  /\ cache_path = [kind |-> "dir", name |-> <<"r">>]
  /\ cache_patterns = DefaultPattern
  /\ collected = NotCollected
  /\ failed_reads = {}
  /\ saved = NoScan
  /\ merging = [pc |-> "none"]
  /\ resolving = [pc |-> "none"]

\* A command that returns before it builds a cleaner.
NothingExecuted(name) ==
  /\ fs' = fs
  /\ result' = NoResult
  /\ removed' = {}
  /\ attempted' = {}
  /\ missing' = {}
  /\ op' = name
  /\ tracker' = ProgressTracker_new(Progress_new)
  /\ events' = << >>

\* The scan command, ScanHandler::execute: scan is what FileScanner::scan
\* returned, NoScan for an Err.  A result with duplicate_count = 0 is not
\* saved, and the scan result file is left as it is.
ScanCommand ==
  /\ LET all_files == collect_file_metadata(fs)
     IN IF all_files = << >>
        THEN /\ collected' = all_files
             /\ failed_reads' = {}
             /\ scan' = NoScan
             /\ saved' = saved
        ELSE /\ collected' = all_files
             /\ \E unreadable \in UnreadableSets(files_to_hash(all_files)) :
                  /\ failed_reads' = unreadable
                  /\ scan' \in Reorderings(scan_lib(fs, unreadable, all_files))
             /\ saved' = IF DOMAIN scan' = {} THEN saved ELSE scan'
  /\ preview' = NoPreview
  /\ NothingExecuted("scan")
  /\ UNCHANGED <<crate, min_file_size, cache_path, cache_patterns>>
  /\ UNCHANGED <<names_vars, hashing, merging, resolving>>

\* The preview command, PreviewHandler::execute: the scan result file is
\* loaded, the preview built and shown, and on the user's "y"
\* CleanerHandler::execute_from_preview cleans from it and removes the scan
\* result file.
PreviewCommand ==
  /\ IF saved = NoScan \/ DOMAIN saved = {}
     THEN /\ NothingExecuted("preview")
          /\ UNCHANGED <<preview, saved>>
     ELSE \E keys \in Perms(DOMAIN saved), po \in ParentOrders(saved) :
            LET built == preview_cleaning(saved, keys, po, min_file_size, EmptyPreviewLib)
            IN /\ preview' = built
               /\ \/ /\ NothingExecuted("preview")
                     /\ saved' = saved
                  \/ /\ built.estimated_files_count # 0
                     /\ \E locked \in LockedSets({x.path : x \in Range(Flatten(
                                       [i \in 1..Len(built.files_to_delete) |->
                                          built.files_to_delete[i].files_to_delete]))}) :
                          FinishLib(clean_from_preview(ExecStateLib(fs), built.files_to_delete,
                                                       min_file_size, locked), "preview")
                     /\ saved' = cleanup_scan_result_file(saved)
  /\ UNCHANGED <<crate, min_file_size, scan>>
  /\ UNCHANGED <<names_vars, hashing, merging, resolving>>
  /\ UNCHANGED scanner_vars

\* The clean command, CleanerHandler::execute: the scan result file is
\* loaded, execute_cleaning cleans all duplicates and removes the file.
CleanCommand ==
  /\ IF saved = NoScan \/ DOMAIN saved = {}
     THEN /\ NothingExecuted("clean")
          /\ saved' = saved
     ELSE /\ \E keys \in Perms(DOMAIN saved), po \in ParentOrders(saved),
                locked \in LockedSets(PathsIn(saved)) :
               FinishLib(clean_all_duplicates(ExecStateLib(fs), saved, keys, po,
                                              min_file_size, locked), "clean")
          /\ saved' = cleanup_scan_result_file(saved)
  /\ preview' = NoPreview
  /\ UNCHANGED <<crate, min_file_size, scan>>
  /\ UNCHANGED <<names_vars, hashing, merging, resolving>>
  /\ UNCHANGED scanner_vars

NextCli == ScanCommand \/ PreviewCommand \/ CleanCommand

SpecCli == InitCli /\ [][NextCli]_vars

\* ------------------------------------------------ settings and resolver
\* The values of CleaningSettings: mode and scan_result_save_path in the core
\* crate; default_mode (here mode), preserve_originals, min_file_size and
\* scan_result_save_path in the lib crate.
CleaningSettings(c) ==
  IF c = "core"
  THEN [mode : {"auto", "interactive"}, scan_result_save_path : {"none", "first", "second"}]
  ELSE [mode : {"auto", "smart"}, preserve_originals : BOOLEAN, min_file_size : MinSizes,
        scan_result_save_path : {"none", "first", "second"}]

\* Merge::merge for CleaningSettings: what self is after self.merge(other).
merge(c, base, other) ==
  IF c = "core"
  THEN [base EXCEPT !.mode = other.mode,
                    !.scan_result_save_path = other.scan_result_save_path]
  ELSE [base EXCEPT !.mode = other.mode,
                    !.preserve_originals = other.preserve_originals,
                    !.min_file_size = IF other.min_file_size > 0
                                      THEN other.min_file_size ELSE @]

InitMerge ==
  /\ crate \in {"core", "lib"}
  /\ fs = << >>
  /\ min_file_size = 0
  /\ scan = NoScan
  /\ preview = NoPreview
  /\ result = NoResult
  /\ removed = {}
  /\ attempted = {}
  /\ missing = {}
  /\ op = "new"
  /\ file_name = NameA
  /\ identity = NoIdentity
  /\ tracker = ProgressTracker_new(Progress_new)
  /\ events = << >>
  /\ hashing = NotHashing
  /\ cache_path = NoPath
  /\ cache_patterns = DefaultPattern
  /\ collected = NotCollected
  /\ failed_reads = {}
  /\ saved = NoScan
  /\ merging \in [pc : {"new"}, base : CleaningSettings(crate),
                   other : CleaningSettings(crate)]
  /\ resolving = [pc |-> "none"]

\* base.merge(other).
Merge ==
  /\ merging.pc = "new"
  /\ merging' = [merging EXCEPT !.pc = "merged",
                                !.base = merge(crate, merging.base, merging.other)]
  /\ UNCHANGED <<cleaner_vars, scanner_vars, names_vars, tracker, events, hashing,
                 saved, resolving>>

NextMerge == Merge

SpecMerge == InitMerge /\ [][NextMerge]_vars

\* What can be at a search path: nothing; a directory without a cache
\* directory; one with a cache directory under a user directory or directly
\* under it.
BasePaths == {"missing", "bare", "user", "direct"}

\* WechatCacheResolver::scan_wechat_directory: the cache directory under a
\* search path, "none" for None or Err.
scan_wechat_directory(base_path) ==
  IF base_path \in {"missing", "bare"} THEN "none" ELSE base_path

\* WechatCacheResolver::find_wechat_dirs over search_paths, the value of
\* get_platform_paths: the index of the search path and the cache directory
\* found there, index 0 for None or Err.  The loop body of the core crate is
\* a return.
RECURSIVE find_wechat_dirs(_, _, _)
find_wechat_dirs(c, search_paths, i) ==
  IF i > Len(search_paths) THEN [index |-> 0, dir |-> "none"]
  ELSE IF c = "core" \/ scan_wechat_directory(search_paths[i]) # "none"
  THEN [index |-> IF scan_wechat_directory(search_paths[i]) = "none" THEN 0 ELSE i,
        dir |-> scan_wechat_directory(search_paths[i])]
  ELSE find_wechat_dirs(c, search_paths, i + 1)

InitResolve ==
  /\ crate \in {"core", "lib"}
  /\ fs = << >>
  /\ min_file_size = 0
  /\ scan = NoScan
  /\ preview = NoPreview
  /\ result = NoResult
  /\ removed = {}
  /\ attempted = {}
  /\ missing = {}
  /\ op = "new"
  /\ file_name = NameA
  /\ identity = NoIdentity
  /\ tracker = ProgressTracker_new(Progress_new)
  /\ events = << >>
  /\ hashing = NotHashing
  /\ cache_path = NoPath
  /\ cache_patterns = DefaultPattern
  /\ collected = NotCollected
  /\ failed_reads = {}
  /\ saved = NoScan
  /\ merging = [pc |-> "none"]
  /\ resolving \in [pc : {"new"},
                     search_paths : UNION {[1..n -> BasePaths] : n \in 0..MaxSearchPaths}]

\* One call of find_wechat_dirs.
FindWechatDirs ==
  /\ resolving.pc = "new"
  /\ resolving' = [pc |-> "done", search_paths |-> resolving.search_paths,
                   found |-> find_wechat_dirs(crate, resolving.search_paths, 1)]
  /\ UNCHANGED <<cleaner_vars, scanner_vars, names_vars, tracker, events, hashing,
                 saved, merging>>

NextResolve == FindWechatDirs

SpecResolve == InitResolve /\ [][NextResolve]_vars

\* ------------------------------------------------ delete_file on its own
\* A cleaner of either crate and files of any permissions.
InitDelete ==
  /\ crate \in {"core", "lib"}
  /\ fs \in DeleteFileSystems
  /\ min_file_size \in MinSizes
  /\ scan = NoScan
  /\ preview = NoPreview
  /\ result = NoResult
  /\ removed = {}
  /\ attempted = {}
  /\ missing = {}
  /\ op = "new"
  /\ file_name = NameA
  /\ identity = NoIdentity
  /\ tracker = ProgressTracker_new(Progress_new)
  /\ events = << >>
  /\ hashing = NotHashing
  /\ cache_path = NoPath
  /\ cache_patterns = DefaultPattern
  /\ collected = NotCollected
  /\ failed_reads = {}
  /\ saved = NoScan
  /\ merging = [pc |-> "none"]
  /\ resolving = [pc |-> "none"]

\* One call of delete_file, on the record of a file that is there or was
\* there.  result keeps what the call returned next to what
\* set_file_permissions and remove_file returned inside it.
DeleteFile ==
  /\ \E path \in {<<Dir1, NameA>>, <<Dir1, NameB>>}, c \in Contents,
        locked \in SUBSET {<<Dir1, NameA>>, <<Dir1, NameB>>} :
       LET file == [path |-> path, size |-> ContentSize(c), modified |-> 1]
           st == [ExecState(fs, tracker) EXCEPT !.removed = removed,
                                                !.attempted = attempted,
                                                !.missing = missing]
           r == IF crate = "core" THEN delete_file(st, file, min_file_size, locked)
                ELSE delete_file_lib(
                       [ExecStateLib(fs) EXCEPT !.removed = removed,
                                                !.attempted = attempted,
                                                !.missing = missing],
                       file, min_file_size, locked)
           fixed == set_file_permissions(fs, path)
       IN /\ path \in DOMAIN fs => c = fs[path].content
          /\ fs' = r.st.fs
          /\ removed' = r.st.removed
          /\ attempted' = r.st.attempted
          /\ missing' = r.st.missing
          /\ result' = [status |-> r.ret, file |-> file,
                        permissions |-> fixed.ret,
                        removal |-> remove_file(fixed.fs, path, locked).ret]
  /\ op' = "delete_file"
  /\ UNCHANGED <<crate, min_file_size, scan, preview, tracker, events>>
  /\ UNCHANGED idle_vars
  /\ UNCHANGED scanner_vars

NextDelete == DeleteFile

SpecDelete == InitDelete /\ [][NextDelete]_vars

\* ---------------------------------------------------- scans on their own
\* A scan under any settings, of a tree with hidden entries, a link, names
\* that read like digests.
InitScan ==
  /\ crate \in {"core", "lib"}
  /\ fs \in ScanFileSystems
  /\ min_file_size = 0
  /\ scan = NoScan
  /\ preview = NoPreview
  /\ result = NoResult
  /\ removed = {}
  /\ attempted = {}
  /\ missing = {}
  /\ op = "new"
  /\ file_name = NameA
  /\ identity = NoIdentity
  /\ tracker = ProgressTracker_new(Progress_new)
  /\ events = << >>
  /\ hashing = NotHashing
  /\ cache_path \in {NoPath} \cup [kind : {"dir", "missing"}, name : {<<"r">>, <<".", "r">>}]
  /\ crate = "lib" => cache_path # NoPath
  /\ cache_patterns \in {DefaultPattern, InvalidPattern}
  /\ crate = "lib" => cache_patterns = DefaultPattern
  /\ collected = NotCollected
  /\ failed_reads = {}
  /\ saved = NoScan
  /\ merging = [pc |-> "none"]
  /\ resolving = [pc |-> "none"]

NextScan == Scan \/ ScanLib

SpecScan == InitScan /\ [][NextScan]_vars

\* ------------------------------------------- patterned_name on its own
\* A file record with any name of up to MaxNameLen characters.
InitNames ==
  /\ crate = "core"
  /\ fs = << >>
  /\ min_file_size = 0
  /\ scan = NoScan
  /\ preview = NoPreview
  /\ result = NoResult
  /\ removed = {}
  /\ attempted = {}
  /\ missing = {}
  /\ op = "new"
  /\ file_name \in Names
  /\ identity = NoIdentity
  /\ tracker = ProgressTracker_new(Progress_new)
  /\ events = << >>
  /\ hashing = NotHashing
  /\ cache_path = [kind |-> "dir", name |-> <<"r">>]
  /\ cache_patterns = DefaultPattern
  /\ collected = NotCollected
  /\ failed_reads = {}
  /\ saved = NoScan
  /\ merging = [pc |-> "none"]
  /\ resolving = [pc |-> "none"]

\* Named::patterned_name with the default pattern.
PatternedName ==
  /\ identity = NoIdentity
  /\ identity' = patterned_name(file_name)
  /\ UNCHANGED <<cleaner_vars, scanner_vars, file_name, tracker, events, hashing, saved,
               merging, resolving>>

NextNames == PatternedName

SpecNames == InitNames /\ [][NextNames]_vars

\* ---------------------------------- calculate_hashes_with_callback
\* A batch of up to MaxItems files, and the tracker the function builds for it.
InitHashing ==
  /\ crate = "lib"
  /\ fs = << >>
  /\ min_file_size = 0
  /\ scan = NoScan
  /\ preview = NoPreview
  /\ result = NoResult
  /\ removed = {}
  /\ attempted = {}
  /\ missing = {}
  /\ op = "new"
  /\ file_name = NameA
  /\ identity = NoIdentity
  /\ tracker = ProgressTracker_new(Progress_new)
  /\ events = << >>
  /\ hashing \in [pc : {"new"}, len : 0..MaxItems, done : {0}]
  /\ cache_path = [kind |-> "dir", name |-> <<"r">>]
  /\ cache_patterns = DefaultPattern
  /\ collected = NotCollected
  /\ failed_reads = {}
  /\ saved = NoScan
  /\ merging = [pc |-> "none"]
  /\ resolving = [pc |-> "none"]

\* The start of calculate_hashes_with_callback: report_msg, and report_progress
\* with the length of the batch.
StartHashing ==
  /\ hashing.pc = "new"
  /\ Reported(report_progress(report_msg([tracker |-> tracker, events |-> events]),
                              0, hashing.len))
  /\ hashing' = [hashing EXCEPT !.pc = "loop"]
  /\ UNCHANGED <<cleaner_vars, scanner_vars, names_vars, saved, merging, resolving>>

\* One turn of its loop: progress.update around the hashing of one file.
HashOne ==
  /\ hashing.pc = "loop"
  /\ hashing.done < hashing.len
  /\ Reported(update([tracker |-> tracker, events |-> events]))
  /\ hashing' = [hashing EXCEPT !.done = @ + 1]
  /\ UNCHANGED <<cleaner_vars, scanner_vars, names_vars, saved, merging, resolving>>

\* Its end: report_complete after the loop.
FinishHashing ==
  /\ hashing.pc = "loop"
  /\ hashing.done = hashing.len
  /\ Reported(report_complete([tracker |-> tracker, events |-> events]))
  /\ hashing' = [hashing EXCEPT !.pc = "done"]
  /\ UNCHANGED <<cleaner_vars, scanner_vars, names_vars, saved, merging, resolving>>

NextHashing == StartHashing \/ HashOne \/ FinishHashing

SpecHashing == InitHashing /\ [][NextHashing]_vars

\* ------------------------------------------------------------ properties
\* The DirectoryGroups of the last preview, whichever crate built it.
PlanGroups ==
  IF preview = NoPreview THEN {}
  ELSE IF crate = "core"
  THEN {[parent_path |-> d,
         file_to_keep |-> preview.file_groups[d].file_to_keep,
         files_to_delete |-> preview.file_groups[d].files_to_delete] :
        d \in DOMAIN preview.file_groups}
  ELSE Range(preview.files_to_delete)

\* All entries of files_to_delete of the last preview.
PlanFiles ==
  IF preview = NoPreview THEN <<>>
  ELSE IF crate = "core" THEN AllToDelete(preview.file_groups)
  ELSE Flatten([i \in 1..Len(preview.files_to_delete) |->
                  preview.files_to_delete[i].files_to_delete])

Executed == op \in {"clean", "confirm"}

\* The duplicate groups of the scan result, as sets of records.
DuplicateGroups == IF scan = NoScan THEN {} ELSE {Range(scan[k]) : k \in DOMAIN scan}

\* The members of group G in the directory of x.
Siblings(G, x) == {y \in G : Parent(y.path) = Parent(x.path)}

CharRank(c) == CHOOSE i \in 1..Len(CharOrder) : CharOrder[i] = c

\* The ordering of file names, byte by byte.
RECURSIVE NameLess(_, _)
NameLess(a, b) ==
  IF a = <<>> THEN b # <<>>
  ELSE IF b = <<>> THEN FALSE
  ELSE IF Head(a) = Head(b) THEN NameLess(Tail(a), Tail(b))
  ELSE CharRank(Head(a)) < CharRank(Head(b))

\* C1: every file an execution removed is a member of a duplicate group that
\* has another member in the same directory, not newer than it, that the
\* execution did not remove and that still exists; and the execution of a plan
\* removes no file the plan keeps.
C1_DeletedOnlyBesideKeptSibling ==
  /\ \A x \in removed :
       \E G \in DuplicateGroups :
         /\ x \in G
         /\ \E y \in Siblings(G, x) :
              /\ y.path # x.path
              /\ y.modified <= x.modified
              /\ y \notin removed
              /\ y.path \in DOMAIN fs
  /\ op = "confirm" =>
       \A g \in PlanGroups :
         g.file_to_keep \notin removed /\ g.file_to_keep.path \in DOMAIN fs

\* C1 witness: an execution removed a file of a group that also has a member
\* in another directory, which it left alone.
C1_Witness ==
  /\ Executed
  /\ \E G \in DuplicateGroups :
       \E x \in G \cap removed, z \in G :
         Parent(z.path) # Parent(x.path) /\ z.path \in DOMAIN fs

\* C2: every group of a scan result has at least two members.
C2_GroupsHaveTwoMembers ==
  scan # NoScan => \A k \in DOMAIN scan : Len(scan[k]) >= 2

\* C2 witness: a scan result with a group keyed by a base name and a group
\* keyed by a digest.
C2_Witness ==
  /\ scan # NoScan
  /\ \E k1, k2 \in DOMAIN scan :
       /\ k1 \in {Digest(c) : c \in Contents}
       /\ k2 \notin {Digest(c) : c \in Contents}

\* C3: in every DirectoryGroup of a plan the kept file and the files to delete
\* are members of one duplicate group and share the group's parent directory,
\* and no member of that group in that directory is older than the kept file.
C3_KeepIsOldestOfItsDirectory ==
  \A g \in PlanGroups :
    \E G \in DuplicateGroups :
      /\ g.file_to_keep \in G
      /\ Parent(g.file_to_keep.path) = g.parent_path
      /\ \A x \in Range(g.files_to_delete) :
           x \in G /\ Parent(x.path) = g.parent_path
      /\ \A m \in Siblings(G, g.file_to_keep) :
           g.file_to_keep.modified <= m.modified

\* C3 witness: a plan keeps a file that is strictly older than one it deletes.
C3_Witness ==
  \E g \in PlanGroups :
    \E x \in Range(g.files_to_delete) : g.file_to_keep.modified < x.modified

\* C4: no entry of files_to_delete of a plan is below min_file_size.
C4_NoEntryBelowFloor ==
  \A g \in PlanGroups :
    \A x \in Range(g.files_to_delete) : x.size >= min_file_size

\* The files an execution is to delete: those of the executed plan, or, for a
\* clean without preview, every member of a group but the oldest of each
\* directory.
ToBeDeleted ==
  IF op = "confirm" THEN Range(PlanFiles)
  ELSE UNION {{x \in G : Cardinality(Siblings(G, x)) > 1
                         /\ \E k \in DOMAIN scan :
                              /\ Range(scan[k]) = G
                              /\ x # Head(sort_by_modified(
                                      group_files_by_parent(scan[k])[Parent(x.path)]))}
              : G \in DuplicateGroups}

\* C5: an execution of a plan returns an outcome, not an error, and has
\* attempted every file of the plan that is not below the floor, whether or
\* not a deletion failed.
C5_FailureDoesNotStopTheRun ==
  (Executed /\ (op = "confirm" => preview # NoPreview)) =>
    /\ result.status = "ok"
    /\ \A x \in ToBeDeleted : x.size >= min_file_size => x.path \in attempted

\* C6: executing a plan whose files are all gone already ends normally, with
\* nothing deleted.
C6_ReexecutionEndsNormally ==
  (/\ op = "confirm"
   /\ PlanFiles # <<>>
   /\ removed = {}
   /\ \A x \in Range(PlanFiles) : x.path \notin DOMAIN fs) =>
    /\ result.status = "ok"
    /\ result.files_deleted = 0

\* C7: the outcome of an execution counts the files it removed and sums
\* their sizes.
C7_ReportMatchesRemoved ==
  (Executed /\ result.status = "ok") =>
    /\ result.files_deleted = Cardinality(removed)
    /\ result.freed_space = SumSizes(SeqOf(removed))

\* C8: the estimates of a plan are the number and the total size of the
\* entries of files_to_delete of its DirectoryGroups.
C8_EstimateMatchesPlan ==
  preview # NoPreview =>
    /\ preview.estimated_files_count = Len(PlanFiles)
    /\ preview.estimated_freed_space = SumSizes(PlanFiles)

\* C9: of the members of a directory sub-group that share the kept file's
\* modified time, the kept file is the first in path order.
C9_TieBrokenByPath ==
  \A g \in PlanGroups :
    \A G \in DuplicateGroups :
      g.file_to_keep \in G =>
        \A m \in Siblings(G, g.file_to_keep) :
          (m # g.file_to_keep /\ m.modified = g.file_to_keep.modified) =>
            NameLess(Name(g.file_to_keep.path), Name(m.path))

\* C10: every DirectoryGroup of a plan has an entry in files_to_delete that is
\* not below the floor, and a plan without DirectoryGroup estimates 0 files.
C10_NoGroupWithoutCandidate ==
  /\ \A g \in PlanGroups :
       \E x \in Range(g.files_to_delete) : x.size >= min_file_size
  /\ (preview # NoPreview /\ PlanGroups = {}) => preview.estimated_files_count = 0

\* name is X.ext, X its first x characters, ext letters and digits.
PlainAt(name, x) ==
  /\ x >= 1
  /\ x + 2 <= Len(name)
  /\ name[x + 1] = "."
  /\ \A j \in (x + 2)..Len(name) : name[j] \in AlNum

\* name is X(n).ext, X its first x characters.
SuffixedAt(name, x) == x >= 1 /\ x + 1 <= Len(name) /\ MatchesAt(name, x + 1)

\* The first x characters of name are Y(n) for a non-empty Y.
EndsInNumber(name, x) ==
  \E i \in 2..(x - 2) :
    /\ name[i] = "("
    /\ name[x] = ")"
    /\ \A j \in (i + 1)..(x - 1) : name[j] \in Digits

\* name without its extension: what follows the last "." and the "." itself.
StripExtension(name) ==
  IF \E i \in 1..Len(name) : name[i] = "."
  THEN LET d == CHOOSE i \in 1..Len(name) :
                  name[i] = "." /\ \A j \in (i + 1)..Len(name) : name[j] # "."
       IN SubSeq(name, 1, d - 1)
  ELSE name

\* C13 as stated: the base identity of X(n).ext and of X.ext is X for every
\* non-empty X, and a name the pattern does not match yields the name without
\* its extension.
C13_BaseIdentityOfEveryX ==
  identity # NoIdentity =>
    /\ \A x \in 1..Len(file_name) :
         SuffixedAt(file_name, x) \/ PlainAt(file_name, x)
           => identity = SubSeq(file_name, 1, x)
    /\ (\A i \in 1..Len(file_name) : ~MatchesAt(file_name, i))
         => identity = StripExtension(file_name)

\* C13: the base identity of X(n).ext is X for every non-empty X, that of
\* X.ext is X for every non-empty X that is not itself Y(n) with Y non-empty,
\* and a name the pattern does not match yields the name without its extension.
C13_BaseIdentity ==
  identity # NoIdentity =>
    /\ \A x \in 1..Len(file_name) :
         \/ SuffixedAt(file_name, x)
         \/ PlainAt(file_name, x) /\ ~EndsInNumber(file_name, x)
         => identity = SubSeq(file_name, 1, x)
    /\ (\A i \in 1..Len(file_name) : ~MatchesAt(file_name, i))
         => identity = StripExtension(file_name)

\* a(1).a has been given its base identity, a.
C13_Witness ==
  /\ file_name = <<"a", "(", "1", ")", ".", "a">>
  /\ SuffixedAt(file_name, 1)
  /\ identity = <<"a">>

\* C17: confirm_and_execute with a result that carries no preview returns
\* InvalidOperation, removes no file, calls remove_file on none and reports no
\* progress, and leaves the files, the settings, the scan result, the caller's
\* preview and the progress tracker as they were, which is all a later call
\* depends on.
C17_ConfirmWithoutPreviewChangesNothing ==
  [][(crate = "core" /\ preview = NoPreview /\ op' = "confirm")
       => /\ result'.status = "err"
          /\ result'.error = "InvalidOperation"
          /\ removed' = {}
          /\ attempted' = {}
          /\ events' = << >>
          /\ UNCHANGED <<crate, fs, min_file_size, scan, preview, tracker>>]_vars

\* confirm_and_execute has failed for want of a preview while the scan result
\* holds duplicates.
C17_Witness ==
  /\ crate = "core"
  /\ op = "confirm"
  /\ result.status = "err"
  /\ result.error = "InvalidOperation"
  /\ preview = NoPreview
  /\ scan # NoScan
  /\ DOMAIN scan # {}

\* The interval the tracker is to keep for a batch of n items.
IntervalFor(n) ==
  LET tenth == n \div 10
  IN IF tenth < 1 THEN 1 ELSE IF tenth > 1000 THEN 1000 ELSE tenth

\* C20: of the items of a batch hashed so far, update has handed at most one
\* in every IntervalFor(batch length) to the callback.
C20_UpdateIsRateLimited ==
  hashing.pc # "none" =>
    Cardinality({i \in 1..Len(events) : events[i].call = "update"})
      <= hashing.done \div IntervalFor(hashing.len)

\* The files that alone have their base identity among those collected.
AloneWithIdentity ==
  {x \in Range(collected) :
     \A y \in Range(collected) :
       y # x => PatternOf[Name(y.path)] # PatternOf[Name(x.path)]}

\* The core crate has scanned and returned a result.
ScannedCore == crate = "core" /\ scan # NoScan /\ collected # NotCollected

\* C11: the result of the detector is the union of the groups of its two
\* phases, whatever their keys: every set of two or more files with one base
\* identity, and every set of two or more hashed files with one digest, is a
\* group of the result, and the result has no other group.
C11_ResultIsUnionOfPhases ==
  ScannedCore =>
    LET by_pattern == group_by_pattern(collected)
        by_hash == group_by_hash(fs, failed_reads, same_size(collected))
    IN DuplicateGroups = {Range(by_pattern[k]) : k \in Multi(by_pattern)}
                           \cup {Range(by_hash[k]) : k \in Multi(by_hash)}

\* C12: two readable files of the same content, each alone with its base
\* identity, are members of the group keyed by the digest of that content.
C12_SameContentSameGroup ==
  ScannedCore =>
    \A x, y \in AloneWithIdentity :
      /\ x # y
      /\ fs[x.path].content = fs[y.path].content
      /\ {x.path, y.path} \cap failed_reads = {}
      => /\ Digest(fs[x.path].content) \in DOMAIN scan
         /\ {x, y} \subseteq Range(scan[Digest(fs[x.path].content)])

\* Two files of one content are grouped under its digest although two other
\* files have that digest as their base identity.
C12_Witness ==
  /\ ScannedCore
  /\ \E x, y \in AloneWithIdentity :
       /\ x # y
       /\ fs[x.path].content = fs[y.path].content
       /\ Digest(fs[x.path].content) \in DOMAIN scan
       /\ {x, y} \subseteq Range(scan[Digest(fs[x.path].content)])
       /\ \E u, v \in Range(collected) :
            /\ u # v
            /\ PatternOf[Name(u.path)] = Digest(fs[x.path].content)
            /\ PatternOf[Name(v.path)] = Digest(fs[x.path].content)

\* C14: the detector run again on the same records, handed over in any
\* order, returns the keys and the member sets of the scan result.
C14_DetectorIgnoresOrder ==
  ScannedCore =>
    \A all_files \in Perms(Range(collected)) :
      LET again == duplicates_by_pattern(fs, failed_reads, all_files)
      IN /\ DOMAIN again = DOMAIN scan
         /\ \A k \in DOMAIN scan : Range(again[k]) = Range(scan[k])

\* A scan of three files or more has found a group by base identity.
C14_Witness ==
  /\ ScannedCore
  /\ Len(collected) >= 3
  /\ \E k \in DOMAIN scan : \A x \in Range(scan[k]) : PatternOf[Name(x.path)] = k

\* The files the last scan hashed.
Hashed ==
  IF collected = NotCollected THEN {}
  ELSE IF crate = "core" THEN Range(same_size(collected))
  ELSE {[path |-> x.path, size |-> x.size, modified |-> x.modified] :
          x \in Range(files_to_hash(collected))}

\* The members of the groups of the scan result, without the digest field the
\* lib crate adds.
GroupMembers(k) ==
  {[path |-> x.path, size |-> x.size, modified |-> x.modified] : x \in Range(scan[k])}

\* C15: a file that cannot be read when it is hashed is in no group; the scan
\* returns its result all the same; and the hashed files that can be read and
\* have one content, if two or more, are exactly the group of its digest.
C15_UnreadableFileIsLeftOut ==
  /\ failed_reads # {} => scan # NoScan
  /\ scan # NoScan /\ collected # NotCollected =>
       /\ \A k \in DOMAIN scan : \A x \in Range(scan[k]) : x.path \notin failed_reads
       /\ \A c \in Contents :
            LET readable == {x \in Hashed : /\ x.path \notin failed_reads
                                            /\ fs[x.path].content = c}
            IN Cardinality(readable) >= 2 =>
                 Digest(c) \in DOMAIN scan /\ GroupMembers(Digest(c)) = readable

\* One of three hashed files of one content could not be read; the other two
\* form the group.
C15_Witness ==
  /\ scan # NoScan
  /\ \E p \in failed_reads : \E k \in DOMAIN scan :
       /\ Digest(fs[p].content) = k
       /\ Cardinality(GroupMembers(k)) = 2
       /\ GroupMembers(k) \subseteq Hashed

\* C16: with a pattern that does not compile, or without a directory at the
\* cache path, the scan of the core crate walks nothing and collects nothing.
C16_RejectedBeforeTheWalk ==
  crate = "core" /\ (\/ Regex_new(cache_patterns) = "err"
                     \/ cache_path = NoPath
                     \/ cache_path.kind # "dir")
    => collected = NotCollected

\* C18: what the collector returns is exactly the regular files under the
\* root whose own name does not start with ".", whatever the name of the root.
C18_CollectsTheUnhiddenFiles ==
  collected # NotCollected =>
    {x.path : x \in Range(collected)}
      = {p \in DOMAIN fs : fs[p].kind = "file" /\ ~is_hidden(Name(p))}

\* The number of DirectoryGroups of the last preview.
PlanSize ==
  IF crate = "core" THEN Cardinality(DOMAIN preview.file_groups)
  ELSE Len(preview.files_to_delete)

\* C19: the execution of a plan hands the callback one report_progress per
\* DirectoryGroup, with current = 1, 2, ... and total = the number of groups,
\* and exactly one completed Progress, as the last event.
C19_OneEventPerGroupThenComplete ==
  op = "confirm" /\ preview # NoPreview =>
    LET progress == SelectSeq(events, LAMBDA e : e.call = "report_progress")
    IN /\ Len(progress) = PlanSize
       /\ \A i \in 1..Len(progress) :
            progress[i].current = i /\ progress[i].total = PlanSize
       /\ events # << >>
       /\ \A i \in 1..Len(events) : events[i].completed <=> i = Len(events)

\* C30: a tracked batch that has ended has handed its callback exactly one
\* completed Progress, as the last notification, and has left the tracker
\* reset.
C30_OneCompletedNotification ==
  hashing.pc = "done" =>
    /\ events # << >>
    /\ \A i \in 1..Len(events) : events[i].completed <=> i = Len(events)
    /\ tracker.progress = Progress_new

\* C25: a file is a member of at most one group of the scan result, once;
\* in the core crate a file that shares its base identity with another is not
\* hashed, and the only group it can be a member of is that of its base
\* identity, among files of that identity.
C25_GroupsAreDisjoint ==
  scan # NoScan /\ collected # NotCollected =>
    /\ \A k \in DOMAIN scan :
         /\ Cardinality(GroupMembers(k)) = Len(scan[k])
         /\ \A j \in DOMAIN scan \ {k} : GroupMembers(k) \cap GroupMembers(j) = {}
    /\ crate = "core" =>
         \A x \in Range(collected) \ AloneWithIdentity :
           /\ x \notin Hashed
           /\ \A k \in DOMAIN scan :
                x \in Range(scan[k]) =>
                  \A y \in Range(scan[k]) : PatternOf[Name(y.path)] = PatternOf[Name(x.path)]

\* The scan result holds a group by base identity and a group by content,
\* of files of one size.
C25_Witness ==
  /\ ScannedCore
  /\ \E k, j \in DOMAIN scan :
       /\ k # j
       /\ Range(scan[k]) \cap AloneWithIdentity = {}
       /\ Range(scan[j]) \subseteq AloneWithIdentity
       /\ \E x \in Range(scan[k]), y \in Range(scan[j]) : x.size = y.size

\* The files left for the content phase: in the core crate those alone with
\* their base identity, in the lib crate all.
Candidates ==
  IF crate = "core" THEN {x.path : x \in AloneWithIdentity}
  ELSE {x.path : x \in Range(collected)}

\* C26: a file is hashed only if another candidate of the content phase has
\* its size; only a hashed file can fail to be read.
C26_UniqueSizeIsNotHashed ==
  collected # NotCollected =>
    /\ \A x \in Hashed :
         /\ x.path \in Candidates
         /\ \E q \in Candidates \ {x.path} :
              ContentSize(fs[q].content) = x.size
    /\ failed_reads \subseteq {x.path : x \in Hashed}

\* A scan has hashed files of one size and left a candidate of another size
\* alone.
C26_Witness ==
  /\ scan # NoScan
  /\ collected # NotCollected
  /\ Hashed # {}
  /\ Candidates \ {x.path : x \in Hashed} # {}

\* The file system the last execution started from, as far as deleting goes:
\* the files there are and those it removed.
BeforeExecution ==
  [p \in DOMAIN fs \cup {x.path : x \in removed} |->
     [content |-> "x", modified |-> 1, kind |-> "file", mode |-> "644", owned |-> TRUE]]

\* C28: a plan built from a scan result whose files are all there, executed
\* without a failed deletion, has removed the files that cleaning directly
\* from that scan result removes.
C28_PreviewThenExecuteIsDirectClean ==
  /\ op = "confirm"
  /\ preview # NoPreview
  /\ result.status = "ok"
  /\ PathsIn(scan) \subseteq DOMAIN BeforeExecution
  /\ attempted = {x.path : x \in removed}
  => \A keys \in Perms(DOMAIN scan), po \in ParentOrders(scan) :
       removed =
         IF crate = "core"
         THEN clean_auto(ExecState(BeforeExecution, tracker), scan, keys, po,
                         min_file_size, {}, << >>).st.removed
         ELSE clean_all_duplicates(ExecStateLib(BeforeExecution), scan, keys, po,
                                   min_file_size, {}).removed

\* C23: a call of delete_file in which setting the permissions failed, on a
\* file not below the size floor, still tries remove_file and returns what
\* that decides: Ok(true) with the file gone when it succeeded, Err when it
\* failed.
C23_FixupFailureDecidesNothing ==
  /\ op = "delete_file"
  /\ result.permissions = "err"
  /\ result.file.size >= min_file_size
  => /\ result.file.path \in attempted
     /\ result.status = IF result.removal = "ok" THEN "true" ELSE "err"
     /\ result.removal = "ok" =>
          result.file.path \notin DOMAIN fs /\ result.file \in removed

C23_Witness ==
  /\ op = "delete_file"
  /\ result.permissions = "err"
  /\ result.status = "true"
  /\ result.file \in removed

\* C22: a scan and the building of a preview, in either crate, leave every
\* file and every mode as they were: a step after which a file is gone or a
\* mode is another one is neither of them.
C22_ScanAndPreviewLeaveTheFiles ==
  [][fs' # fs => ~(Scan \/ Preview \/ ScanLib \/ PreviewLib)]_vars

C22_Witness ==
  /\ scan # NoScan
  /\ preview # NoPreview
  /\ op = "new"
  /\ PathsIn(scan) # {}
  /\ PathsIn(scan) \subseteq DOMAIN fs

\* C24: after base.merge(other) on CleaningSettings, base is equal to other in
\* every field.
C24_MergeTakesEveryField ==
  merging.pc = "merged" => merging.base = merging.other

\* C27: find_wechat_dirs returns the cache directory of the first search path
\* that has one, and nothing only when no search path has one.
C27_FirstPathWithACache ==
  resolving.pc = "done" =>
    LET paths == resolving.search_paths
        valid == {i \in 1..Len(paths) : scan_wechat_directory(paths[i]) # "none"}
    IN IF valid = {} THEN resolving.found.index = 0
       ELSE /\ resolving.found.index \in valid
            /\ \A i \in valid : resolving.found.index <= i
            /\ resolving.found.dir = scan_wechat_directory(paths[resolving.found.index])

C29_LoadedIsTheLastScan ==
  [][op' \in {"clean", "preview"} /\ saved # NoScan /\ scan # NoScan => saved = scan]_vars

====
